---- MODULE Spec2Model ----
(***************************************************************************)
(* A model of mini-http: the request-dispatch pipeline of createHttpServer  *)
(* (src/src/server.ts) and of createTypedHttpServer (src/src/typed-server.ts).*)
(*                                                                         *)
(* Texts are sequences of one-character strings, so that the length, the   *)
(* UTF-8 byte length, JSON.parse and JSON.stringify are computed.          *)
(***************************************************************************)
EXTENDS Integers, Sequences, FiniteSets, TLC

(***************************************************************************)
(* Bounds of the model.                                                    *)
(***************************************************************************)
\* the longest Route Table the model registers
MaxRoutes == 2
\* the number of requests that can be in flight at the same time
MaxInflight == 1
\* the largest number of chunks a request body stream is delivered in
MaxChunks == 2

(***************************************************************************)
(* Texts.                                                                  *)
(***************************************************************************)
Digits == <<"0", "1", "2", "3", "4", "5", "6", "7", "8", "9">>

DigitChars == {Digits[i] : i \in 1..10}

DigitVal(c) == (CHOOSE i \in 1..10 : Digits[i] = c) - 1

\* characters (named by code point) whose UTF-8 encoding takes two bytes
TwoByteChars == {"U+00E9", "U+00FC"}

\* characters whose UTF-8 encoding takes three bytes
ThreeByteChars == {"U+20AC", "U+FFFD"}

\* the character a decoder puts in the place of bytes that are no UTF-8 sequence
ReplacementChar == "U+FFFD"

Utf8Len(c) == IF c \in TwoByteChars THEN 2 ELSE IF c \in ThreeByteChars THEN 3 ELSE 1

RECURSIVE byteLength(_)
\* Buffer.byteLength(text): the number of bytes of the UTF-8 encoding
byteLength(t) == IF t = <<>> THEN 0 ELSE Utf8Len(Head(t)) + byteLength(Tail(t))

\* the bytes of one character; the byte of an ASCII character is written as the character
Utf8Bytes(c) ==
  CASE c = "U+00E9" -> <<"0xC3", "0xA9">>
    [] c = "U+00FC" -> <<"0xC3", "0xBC">>
    [] c = "U+20AC" -> <<"0xE2", "0x82", "0xAC">>
    [] c = "U+FFFD" -> <<"0xEF", "0xBF", "0xBD">>
    [] OTHER -> <<c>>

RECURSIVE Utf8Encode(_)
\* Buffer.from(text): the UTF-8 bytes of a text
Utf8Encode(t) == IF t = <<>> THEN <<>> ELSE Utf8Bytes(Head(t)) \o Utf8Encode(Tail(t))

TwoByteLeads == {"0xC3"}

ThreeByteLeads == {"0xE2", "0xEF"}

ContinuationBytes == {"0xA9", "0xBC", "0x82", "0xAC", "0xBF", "0xBD"}

\* the character that a complete byte sequence encodes, the replacement character if none
CharOfBytes(bs) ==
  IF \E c \in TwoByteChars \cup ThreeByteChars : Utf8Bytes(c) = bs
  THEN CHOOSE c \in TwoByteChars \cup ThreeByteChars : Utf8Bytes(c) = bs
  ELSE ReplacementChar

RECURSIVE Utf8Decode(_)
\* Buffer.prototype.toString(): a truncated sequence and every stray
\* continuation byte decode to one replacement character
Utf8Decode(bs) ==
  IF bs = <<>> THEN <<>>
  ELSE LET h == Head(bs)
           cont(i) == Len(bs) >= i /\ bs[i] \in ContinuationBytes
           from(i) == Utf8Decode(SubSeq(bs, i, Len(bs)))
       IN CASE h \in TwoByteLeads ->
                 IF cont(2) THEN <<CharOfBytes(SubSeq(bs, 1, 2))>> \o from(3)
                 ELSE <<ReplacementChar>> \o from(2)
            [] h \in ThreeByteLeads ->
                 IF cont(2) /\ cont(3) THEN <<CharOfBytes(SubSeq(bs, 1, 3))>> \o from(4)
                 ELSE IF cont(2) THEN <<ReplacementChar>> \o from(3)
                 ELSE <<ReplacementChar>> \o from(2)
            [] h \in ContinuationBytes -> <<ReplacementChar>> \o from(2)
            [] OTHER -> <<h>> \o from(2)

RECURSIVE NatToText(_)
NatToText(n) == IF n < 10 THEN <<Digits[n + 1]>> ELSE NatToText(n \div 10) \o <<Digits[(n % 10) + 1]>>

\* Number.prototype.toString(): the decimal text of an integer
toString(n) == IF n < 0 THEN <<"-">> \o NatToText(0 - n) ELSE NatToText(n)

\* String.prototype.toUpperCase() on the letters the model uses
UpperChar(c) ==
  CASE c = "g" -> "G" [] c = "e" -> "E" [] c = "t" -> "T" [] c = "p" -> "P"
    [] c = "o" -> "O" [] c = "s" -> "S" [] c = "u" -> "U" [] c = "h" -> "H"
    [] c = "a" -> "A" [] c = "d" -> "D" [] c = "l" -> "L" [] c = "c" -> "C"
    [] OTHER -> c

toUpperCase(t) == [i \in 1..Len(t) |-> UpperChar(t[i])]

\* TRUE iff text p occurs in text t starting at position i
OccursAt(p, t, i) == /\ i >= 1
                     /\ i + Len(p) - 1 <= Len(t)
                     /\ \A j \in 1..Len(p) : t[i + j - 1] = p[j]

(***************************************************************************)
(* The texts of the program and of the requests the model sends.           *)
(***************************************************************************)
GET == <<"G", "E", "T">>

POST == <<"P", "O", "S", "T">>

\* a method token outside HttpMethods
HEAD == <<"H", "E", "A", "D">>

\* a lower-case method token
get_lower == <<"g", "e", "t">>

PathRoot == <<"/">>

PathTest == <<"/", "t", "e", "s", "t">>

TextPlain == <<"t", "e", "x", "t", "/", "p", "l", "a", "i", "n">>

ApplicationJson ==
  <<"a", "p", "p", "l", "i", "c", "a", "t", "i", "o", "n", "/", "j", "s", "o", "n">>

TextHtml == <<"t", "e", "x", "t", "/", "h", "t", "m", "l">>

InvalidRoute == <<"i", "n", "v", "a", "l", "i", "d", " ", "r", "o", "u", "t", "e">>

HelloWorld == <<"h", "e", "l", "l", "o", " ", "w", "o", "r", "l", "d">>

InternalServerError ==
  <<"i", "n", "t", "e", "r", "n", "a", "l", " ", "s", "e", "r", "v", "e", "r", " ", "e", "r", "r", "o", "r">>

BodyIsUndefined ==
  <<"b", "o", "d", "y", " ", "i", "s", " ", "u", "n", "d", "e", "f", "i", "n", "e", "d">>

BodyIsInvalid == <<"b", "o", "d", "y", " ", "i", "s", " ", "i", "n", "v", "a", "l", "i", "d">>

InvalidRequestBody ==
  <<"I", "n", "v", "a", "l", "i", "d", " ", "r", "e", "q", "u", "e", "s", "t", " ", "b", "o", "d", "y">>

ExpectedBodyString ==
  <<"e", "x", "p", "e", "c", "t", "e", "d", " ", "b", "o", "d", "y", " ", "t", "o", " ", "b", "e", " ", "a", " ", "s", "t", "r", "i", "n", "g">>

UnexpectedInput ==
  <<"u", "n", "e", "x", "p", "e", "c", "t", "e", "d", " ", "i", "n", "p", "u", "t">>

\* the message of the SyntaxError JSON.parse throws (engine-defined)
SyntaxErrorMessage ==
  <<"U", "n", "e", "x", "p", "e", "c", "t", "e", "d", " ", "t", "o", "k", "e", "n">>

ErrorKey == <<"e", "r", "r", "o", "r">>

Foo == <<"f", "o", "o">>

Bar == <<"b", "a", "r">>

\* request body texts
BodyValid ==
  <<"{", "\"", "f", "o", "o", "\"", ":", "\"", "s", "t", "r", "\"", ",", "\"", "b", "a", "r", "\"", ":", "1", "}">>

BodyEmptyObject == <<"{", "}">>

BodyNotJson == <<"n", "o", "p", "e">>

BodyHello ==
  <<"{", "\"", "h", "e", "l", "l", "o", "\"", ":", "\"", "w", "U+00E9", "U+20AC", "\"", "}">>

\* the JSON text "\u20ac": five bytes, three of them one character
BodyEuro == <<"\"", "U+20AC", "\"">>

\* failure messages
MsgQuoted == <<"n", "o", " ", "\"", "a", "c", "c", "e", "s", "s", "\"">>

MsgCafe == <<"c", "a", "f", "U+00E9">>

PUT == <<"P", "U", "T">>

PATCH == <<"P", "A", "T", "C", "H">>

DELETE == <<"D", "E", "L", "E", "T", "E">>

Hello == <<"h", "e", "l", "l", "o">>

ContentLength999 == <<"9", "9", "9">>

(***************************************************************************)
(* JSON values.  Every value is a record of one shape: t is the type, s the *)
(* characters of a string, n the number, b the boolean, o the members of an *)
(* object (key k, value v, in insertion order) or the elements of an array  *)
(* (k empty).                                                              *)
(***************************************************************************)
JNull == [t |-> "null", s |-> <<>>, n |-> 0, b |-> FALSE, o |-> <<>>]

JStr(s) == [t |-> "string", s |-> s, n |-> 0, b |-> FALSE, o |-> <<>>]

JNum(n) == [t |-> "number", s |-> <<>>, n |-> n, b |-> FALSE, o |-> <<>>]

JBool(b) == [t |-> "boolean", s |-> <<>>, n |-> 0, b |-> b, o |-> <<>>]

JObj(members) == [t |-> "object", s |-> <<>>, n |-> 0, b |-> FALSE, o |-> members]

JArr(elements) == [t |-> "array", s |-> <<>>, n |-> 0, b |-> FALSE, o |-> elements]

Member(k, v) == [k |-> k, v |-> v]

\* obj[k] = v on a JavaScript object: an existing key keeps its place
SetMember(members, k, v) ==
  IF \E i \in 1..Len(members) : members[i].k = k
  THEN [i \in 1..Len(members) |-> IF members[i].k = k THEN Member(k, v) ELSE members[i]]
  ELSE Append(members, Member(k, v))

HasMember(members, k) == \E i \in 1..Len(members) : members[i].k = k

GetMember(members, k) == members[CHOOSE i \in 1..Len(members) : members[i].k = k].v

(***************************************************************************)
(* JSON.parse.  A parse result is [ok, val, next]: next is the position of  *)
(* the first character after the value.                                    *)
(***************************************************************************)
PFail == [ok |-> FALSE, val |-> JNull, next |-> 0]

POk(v, i) == [ok |-> TRUE, val |-> v, next |-> i]

WhiteSpace == {" ", "\n", "\t", "\r"}

RECURSIVE SkipWs(_, _)
SkipWs(t, i) == IF i <= Len(t) /\ t[i] \in WhiteSpace THEN SkipWs(t, i + 1) ELSE i

RECURSIVE ScanString(_, _, _)
\* the characters of a string literal whose opening quote precedes position i
ScanString(t, i, acc) ==
  IF i > Len(t) THEN PFail
  ELSE IF t[i] = "\"" THEN POk(JStr(acc), i + 1)
  ELSE IF t[i] = "\\"
       THEN IF i + 1 <= Len(t) /\ t[i + 1] \in {"\"", "\\", "/"}
            THEN ScanString(t, i + 2, Append(acc, t[i + 1]))
            ELSE IF i + 1 <= Len(t) /\ t[i + 1] = "n"
                 THEN ScanString(t, i + 2, Append(acc, "\n"))
                 ELSE PFail
  ELSE IF t[i] \in {"\n", "\t", "\r"} THEN PFail
  ELSE ScanString(t, i + 1, Append(acc, t[i]))

RECURSIVE ScanDigits(_, _, _)
ScanDigits(t, i, acc) ==
  IF i <= Len(t) /\ t[i] \in DigitChars
  THEN ScanDigits(t, i + 1, acc * 10 + DigitVal(t[i]))
  ELSE POk(JNum(acc), i)

\* an integer literal: -? (0 | [1-9][0-9]*)
ScanNumber(t, i) ==
  LET neg == i <= Len(t) /\ t[i] = "-"
      j == IF neg THEN i + 1 ELSE i
  IN IF j > Len(t) \/ t[j] \notin DigitChars THEN PFail
     ELSE LET r == IF t[j] = "0" THEN POk(JNum(0), j + 1) ELSE ScanDigits(t, j, 0)
          IN IF neg THEN POk(JNum(0 - r.val.n), r.next) ELSE r

RECURSIVE ParseValue(_, _)
RECURSIVE ParseMembers(_, _, _)
RECURSIVE ParseElements(_, _, _)

\* the members of an object after "{" or ",": position i is before a key
ParseMembers(t, i, acc) ==
  LET k0 == SkipWs(t, i)
  IN IF k0 > Len(t) \/ t[k0] # "\"" THEN PFail
     ELSE LET key == ScanString(t, k0 + 1, <<>>)
          IN IF ~key.ok THEN PFail
             ELSE LET c == SkipWs(t, key.next)
                  IN IF c > Len(t) \/ t[c] # ":" THEN PFail
                     ELSE LET v == ParseValue(t, c + 1)
                          IN IF ~v.ok THEN PFail
                             ELSE LET e == SkipWs(t, v.next)
                                      acc2 == SetMember(acc, key.val.s, v.val)
                                  IN IF e > Len(t) THEN PFail
                                     ELSE IF t[e] = "}" THEN POk(JObj(acc2), e + 1)
                                     ELSE IF t[e] = "," THEN ParseMembers(t, e + 1, acc2)
                                     ELSE PFail

\* the elements of an array after "[" or ","
ParseElements(t, i, acc) ==
  LET v == ParseValue(t, i)
  IN IF ~v.ok THEN PFail
     ELSE LET e == SkipWs(t, v.next)
              acc2 == Append(acc, Member(<<>>, v.val))
          IN IF e > Len(t) THEN PFail
             ELSE IF t[e] = "]" THEN POk(JArr(acc2), e + 1)
             ELSE IF t[e] = "," THEN ParseElements(t, e + 1, acc2)
             ELSE PFail

ParseValue(t, i0) ==
  LET i == SkipWs(t, i0)
  IN IF i > Len(t) THEN PFail
     ELSE IF t[i] = "{"
          THEN LET j == SkipWs(t, i + 1)
               IN IF j <= Len(t) /\ t[j] = "}" THEN POk(JObj(<<>>), j + 1)
                  ELSE ParseMembers(t, i + 1, <<>>)
     ELSE IF t[i] = "["
          THEN LET j == SkipWs(t, i + 1)
               IN IF j <= Len(t) /\ t[j] = "]" THEN POk(JArr(<<>>), j + 1)
                  ELSE ParseElements(t, i + 1, <<>>)
     ELSE IF t[i] = "\"" THEN ScanString(t, i + 1, <<>>)
     ELSE IF t[i] = "-" \/ t[i] \in DigitChars THEN ScanNumber(t, i)
     ELSE IF OccursAt(<<"t", "r", "u", "e">>, t, i) THEN POk(JBool(TRUE), i + 4)
     ELSE IF OccursAt(<<"f", "a", "l", "s", "e">>, t, i) THEN POk(JBool(FALSE), i + 5)
     ELSE IF OccursAt(<<"n", "u", "l", "l">>, t, i) THEN POk(JNull, i + 4)
     ELSE PFail

\* JSON.parse(text): ok is FALSE where JSON.parse throws a SyntaxError
JSONparse(t) ==
  LET r == ParseValue(t, 1)
  IN IF r.ok /\ SkipWs(t, r.next) = Len(t) + 1 THEN r ELSE PFail

(***************************************************************************)
(* JSON.stringify.                                                         *)
(***************************************************************************)
RECURSIVE EscapeString(_)
EscapeString(s) ==
  IF s = <<>> THEN <<>>
  ELSE (IF Head(s) \in {"\"", "\\"} THEN <<"\\", Head(s)>>
        ELSE IF Head(s) = "\n" THEN <<"\\", "n">>
        ELSE <<Head(s)>>) \o EscapeString(Tail(s))

Quote(s) == <<"\"">> \o EscapeString(s) \o <<"\"">>

RECURSIVE JSONstringify(_)
RECURSIVE StringifyList(_, _, _)

\* the members or elements from position i on, separated by commas
StringifyList(o, i, keyed) ==
  IF i > Len(o) THEN <<>>
  ELSE (IF i > 1 THEN <<",">> ELSE <<>>)
       \o (IF keyed THEN Quote(o[i].k) \o <<":">> ELSE <<>>)
       \o JSONstringify(o[i].v)
       \o StringifyList(o, i + 1, keyed)

JSONstringify(v) ==
  CASE v.t = "string" -> Quote(v.s)
    [] v.t = "number" -> toString(v.n)
    [] v.t = "boolean" -> IF v.b THEN <<"t", "r", "u", "e">> ELSE <<"f", "a", "l", "s", "e">>
    [] v.t = "object" -> <<"{">> \o StringifyList(v.o, 1, TRUE) \o <<"}">>
    [] v.t = "array" -> <<"[">> \o StringifyList(v.o, 1, FALSE) \o <<"]">>
    [] OTHER -> <<"n", "u", "l", "l">>

(***************************************************************************)
(* Values of src/src/http.ts and src/src/errors.ts.                        *)
(***************************************************************************)
HttpMethods == <<GET, POST, PUT, PATCH, DELETE>>

\* a body: absent (undefined), a string, or a decoded JSON value
BAbsent == [kind |-> "absent", text |-> <<>>, val |-> JNull]

BString(t) == [kind |-> "string", text |-> t, val |-> JNull]

BValue(v) == [kind |-> "value", text |-> <<>>, val |-> v]

\* headers are a JavaScript object: name/value pairs in insertion order
Header(n, v) == [name |-> n, value |-> v]

\* headers[n] = v: an existing name keeps its place and takes the new value
SetHeader(hs, n, v) ==
  IF \E i \in 1..Len(hs) : hs[i].name = n
  THEN [i \in 1..Len(hs) |-> IF hs[i].name = n THEN Header(n, v) ELSE hs[i]]
  ELSE Append(hs, Header(n, v))

RECURSIVE SpreadHeaders(_, _)
\* { ...into, ...hs }
SpreadHeaders(into, hs) ==
  IF hs = <<>> THEN into
  ELSE SpreadHeaders(SetHeader(into, Head(hs).name, Head(hs).value), Tail(hs))

HasHeader(hs, n) == \E i \in 1..Len(hs) : hs[i].name = n

GetHeader(hs, n) == hs[CHOOSE i \in 1..Len(hs) : hs[i].name = n].value

\* an HttpResponse; hasHeaders is FALSE when the headers property is undefined
HttpResponse(statusCode, hasHeaders, headers, body) ==
  [statusCode |-> statusCode, hasHeaders |-> hasHeaders, headers |-> headers, body |-> body]

\* a raised value: an HttpError, another Error, or a value that is no Error
HttpError(statusCode, message) == [kind |-> "HttpError", statusCode |-> statusCode, message |-> message]

NotFoundError(message) == HttpError(404, message)

BadInputError(message) == HttpError(400, message)

AuthError(message) == HttpError(401, message)

Error(message) == [kind |-> "Error", statusCode |-> 0, message |-> message]

SyntaxError == Error(SyntaxErrorMessage)

ThrownValue == [kind |-> "value", statusCode |-> 0, message |-> <<>>]

NoError == [kind |-> "none", statusCode |-> 0, message |-> <<>>]

(***************************************************************************)
(* Request normalisation (src/src/server.ts).                              *)
(***************************************************************************)
parsePath(raw) == IF raw.hasUrl THEN raw.url ELSE PathRoot

\* TRUE iff parseMethod returns; it throws otherwise
parseMethodAccepts(raw) ==
  /\ raw.method # <<>>
  /\ \E i \in 1..Len(HttpMethods) : HttpMethods[i] = toUpperCase(raw.method)

parseMethod(raw) == toUpperCase(raw.method)

\* mutant: the chunk is put before the data read so far
parseBodyChunk_Prepend(data, chunk) ==
  BString(Utf8Decode(chunk) \o (IF data.kind = "absent" THEN <<>> ELSE data.text))

\* one iteration of the loop of parseBody: data += chunk, where the chunk is a
\* Buffer (the stream has no encoding set) and += appends chunk.toString()
parseBodyChunk(data, chunk) ==
  BString((IF data.kind = "absent" THEN <<>> ELSE data.text) \o Utf8Decode(chunk))

HttpRequest(path, method, body) == [path |-> path, method |-> method, body |-> body]

NoRequest == HttpRequest(<<>>, <<>>, BAbsent)

(***************************************************************************)
(* Routes and matching (src/src/server.ts).                                *)
(***************************************************************************)
\* a string matcher, or a RegExp: a literal source with optional ^ and $
\* anchors, the g flag and the lastIndex the g flag makes test() keep
StringMatcher(s) ==
  [kind |-> "string", source |-> s, anchorStart |-> FALSE, anchorEnd |-> FALSE,
   global |-> FALSE, lastIndex |-> 0]

RegExp(source, anchorStart, anchorEnd, global) ==
  [kind |-> "regexp", source |-> source, anchorStart |-> anchorStart, anchorEnd |-> anchorEnd,
   global |-> global, lastIndex |-> 0]

\* RegExp.prototype.test: the match found and the lastIndex left behind
RegExpTest(re, s) ==
  LET start == IF re.global THEN re.lastIndex ELSE 0
      cands == {i \in (start + 1)..(Len(s) - Len(re.source) + 1) :
                  /\ OccursAt(re.source, s, i)
                  /\ re.anchorStart => i = 1
                  /\ re.anchorEnd => i + Len(re.source) - 1 = Len(s)}
      first == CHOOSE i \in cands : \A j \in cands : i <= j
  IN [matched |-> cands # {},
      lastIndex |-> IF ~re.global THEN re.lastIndex
                    ELSE IF cands # {} THEN first - 1 + Len(re.source) ELSE 0]

matchPath(request, route) ==
  IF route.matcher.kind = "regexp"
  THEN RegExpTest(route.matcher, request.path)
  ELSE [matched |-> route.matcher.source = request.path, lastIndex |-> route.matcher.lastIndex]

matchMethod(request, route) == request.method = route.method

matchRoute(request, route) ==
  LET p == matchPath(request, route)
  IN [matched |-> p.matched /\ matchMethod(request, route), lastIndex |-> p.lastIndex]

isRouteWithValidations(route) == route.hasValidators

RECURSIVE FindRoute_NoBreak(_, _, _)
\* mutant: the loop lacks its break, so the last matching route is the one served
FindRoute_NoBreak(request, rts, i) ==
  IF i > Len(rts) THEN [routes |-> rts, index |-> 0]
  ELSE LET m == matchRoute(request, rts[i])
           tested == [rts EXCEPT ![i].matcher.lastIndex = m.lastIndex]
           rest == FindRoute_NoBreak(request, tested, i + 1)
       IN IF m.matched /\ rest.index = 0 THEN [routes |-> rest.routes, index |-> i] ELSE rest

RECURSIVE FindRoute(_, _, _)
\* the loop over routes: every route up to the first match is tested; index
\* is the position of the first route that matches, 0 when none does
FindRoute(request, rts, i) ==
  IF i > Len(rts) THEN [routes |-> rts, index |-> 0]
  ELSE LET m == matchRoute(request, rts[i])
           tested == [rts EXCEPT ![i].matcher.lastIndex = m.lastIndex]
       IN IF m.matched THEN [routes |-> tested, index |-> i]
          ELSE FindRoute(request, tested, i + 1)

(***************************************************************************)
(* Body validation and failure translation (src/src/server.ts).            *)
(***************************************************************************)
\* a body schema: an object identity and the required properties
Schema(id, props) == [id |-> id, props |-> props]

NoSchema == Schema(0, <<>>)

Prop(k, t) == [k |-> k, t |-> t]

\* validator.Check(data) of the validator compiled from the schema
Check(data, schema) ==
  /\ data.t = "object"
  /\ \A i \in 1..Len(schema.props) :
       /\ HasMember(data.o, schema.props[i].k)
       /\ GetMember(data.o, schema.props[i].k).t = schema.props[i].t

isJsonValid(data, schema) == Check(data, schema)

\* validateRequestBody: ok with the decoded body, or the Error it throws;
\* compiled tells whether compilerCache.compile was reached
validateRequestBody(request, schema) ==
  IF request.body.kind = "absent"
  THEN [ok |-> FALSE, err |-> Error(BodyIsUndefined), body |-> BAbsent, compiled |-> FALSE]
  ELSE LET parsed == JSONparse(request.body.text)
       IN IF ~parsed.ok
          THEN [ok |-> FALSE, err |-> SyntaxError, body |-> BAbsent, compiled |-> FALSE]
          ELSE IF ~isJsonValid(parsed.val, schema)
               THEN [ok |-> FALSE, err |-> Error(BodyIsInvalid), body |-> BAbsent, compiled |-> TRUE]
               ELSE [ok |-> TRUE, err |-> NoError, body |-> BValue(parsed.val), compiled |-> TRUE]

formatErrorResponse(message, statusCode) ==
  HttpResponse(statusCode, FALSE, <<>>, BValue(JObj(<<Member(ErrorKey, JStr(message))>>)))

\* mutant: the status code an HttpError carries is dropped
parseErrorResponse_NoStatus(err) ==
  IF err.kind \in {"HttpError", "Error"} THEN formatErrorResponse(err.message, 500)
  ELSE formatErrorResponse(InternalServerError, 500)

\* mutant: the message of an Error that is no HttpError is replaced by the generic text
parseErrorResponse_NoMessage(err) ==
  IF err.kind = "HttpError" THEN formatErrorResponse(err.message, err.statusCode)
  ELSE formatErrorResponse(InternalServerError, 500)

parseErrorResponse(err) ==
  IF err.kind = "HttpError" THEN formatErrorResponse(err.message, err.statusCode)
  ELSE IF err.kind = "Error" THEN formatErrorResponse(err.message, 500)
  ELSE formatErrorResponse(InternalServerError, 500)

\* mutant: the response of a miss is a 404
DefaultResponse_NotFound ==
  HttpResponse(404, TRUE, <<Header("content-type", TextPlain)>>, BString(InvalidRoute))

\* the response the callback starts with
DefaultResponse ==
  HttpResponse(500, TRUE, <<Header("content-type", TextPlain)>>, BString(InvalidRoute))

(***************************************************************************)
(* Response serialisation (src/src/server.ts).                             *)
(***************************************************************************)
\* "body" in response && response.body != undefined
bodyPresent(response) ==
  /\ response.body.kind # "absent"
  /\ ~(response.body.kind = "value" /\ response.body.val.t = "null")

\* typeof response.body === "object", for a present body
isObjectBody(body) == body.kind = "value" /\ body.val.t \in {"object", "array"}

\* `${body}` for a body that is no object
TemplateString(body) ==
  IF body.kind = "string" THEN body.text
  ELSE IF body.val.t = "string" THEN body.val.s
  ELSE IF body.val.t = "number" THEN toString(body.val.n)
  ELSE IF body.val.b THEN <<"t", "r", "u", "e">> ELSE <<"f", "a", "l", "s", "e">>

contentTypeOf(body) == IF isObjectBody(body) THEN ApplicationJson ELSE TextPlain

bodyTextOf(body) == IF isObjectBody(body) THEN JSONstringify(body.val) ELSE TemplateString(body)

\* mutant: the length in characters instead of the length in bytes
contentLengthOf_Chars(text) == toString(Len(text))

contentLengthOf(text) == toString(byteLength(text))

\* the headers assigned to response.headers when the body is present
serializeHeaders(response, text) ==
  SetHeader(SpreadHeaders(<<Header("content-type", contentTypeOf(response.body))>>,
                          IF response.hasHeaders THEN response.headers ELSE <<>>),
            "content-length", contentLengthOf(text))

\* the serialiser: the response object as it leaves it, and the text to write
Serialize(response) ==
  IF bodyPresent(response)
  THEN LET text == bodyTextOf(response.body)
       IN [response |-> [response EXCEPT !.hasHeaders = TRUE,
                                         !.headers = serializeHeaders(response, text)],
           hasBody |-> TRUE, text |-> text]
  ELSE [response |-> response, hasBody |-> FALSE, text |-> <<>>]

WriteHead(response) ==
  [op |-> "writeHead", statusCode |-> response.statusCode, hasHeaders |-> response.hasHeaders,
   headers |-> response.headers, text |-> <<>>]

Write(text) ==
  [op |-> "write", statusCode |-> 0, hasHeaders |-> FALSE, headers |-> <<>>, text |-> text]

End == [op |-> "end", statusCode |-> 0, hasHeaders |-> FALSE, headers |-> <<>>, text |-> <<>>]

\* mutant: the body is written before the status and the headers
WireOf_BodyFirst(ser) ==
  (IF ser.hasBody /\ ser.text # <<>> THEN <<Write(ser.text)>> ELSE <<>>)
    \o <<WriteHead(ser.response)>>
    \o <<End>>

\* res.writeHead(...); if (body) res.write(body); res.end()
WireOf(ser) ==
  <<WriteHead(ser.response)>>
    \o (IF ser.hasBody /\ ser.text # <<>> THEN <<Write(ser.text)>> ELSE <<>>)
    \o <<End>>

(***************************************************************************)
(* Handlers.  A handler is caller code; the model registers handlers that   *)
(* return a fresh Response, echo the request body, raise a failure, or      *)
(* return one Response object that they keep (shared[ref]).                *)
(***************************************************************************)
Handler(kind, response, err, ref) == [kind |-> kind, response |-> response, err |-> err, ref |-> ref]

NoResponse == HttpResponse(0, FALSE, <<>>, BAbsent)

Returns(response) == Handler("return", response, NoError, 0)

Echoes == Handler("echo", NoResponse, NoError, 0)

Throws(err) == Handler("throw", NoResponse, err, 0)

ReturnsShared(ref) == Handler("shared", NoResponse, NoError, ref)

NoHandler == Handler("none", NoResponse, NoError, 0)

\* the outcome of handler(request, route): a Response (or the object it is) or a failure
RunHandler(h, request) ==
  CASE h.kind = "return" -> [threw |-> FALSE, err |-> NoError, response |-> h.response, ref |-> 0]
    [] h.kind = "echo" -> [threw |-> FALSE, err |-> NoError,
                           response |-> HttpResponse(200, FALSE, <<>>, request.body), ref |-> 0]
    [] h.kind = "shared" -> [threw |-> FALSE, err |-> NoError, response |-> NoResponse, ref |-> h.ref]
    [] OTHER -> [threw |-> TRUE, err |-> h.err, response |-> NoResponse, ref |-> 0]

NoOutcome == [threw |-> FALSE, err |-> NoError, response |-> NoResponse, ref |-> 0]

Route(matcher, method, hasValidators, schema, handler) ==
  [matcher |-> matcher, method |-> method, hasValidators |-> hasValidators,
   schema |-> schema, handler |-> handler]

(***************************************************************************)
(* The inputs of the model: the routes that callers register and the raw   *)
(* requests that the listener delivers.                                    *)
(***************************************************************************)
SchemaFooBar == Schema(1, <<Prop(Foo, "string"), Prop(Bar, "number")>>)

\* another schema object with the same structure
SchemaFooBarCopy == Schema(2, <<Prop(Foo, "string"), Prop(Bar, "number")>>)

SchemaIds == {SchemaFooBar.id, SchemaFooBarCopy.id}

SharedRefs == {1}

\* the Response object that the handler ReturnsShared(1) keeps, as created
SharedInit == [ref \in SharedRefs |-> HttpResponse(200, FALSE, <<>>, BString(HelloWorld))]

\* an object body whose JSON text holds a character of more than one byte
HelloObject == JObj(<<Member(Hello, JStr(MsgCafe))>>)

Handlers ==
  [hello |-> Returns(HttpResponse(200, FALSE, <<>>, BString(HelloWorld))),
   object |-> Returns(HttpResponse(200, FALSE, <<>>, BValue(HelloObject))),
   empty |-> Returns(HttpResponse(204, FALSE, <<>>, BAbsent)),
   html |-> Returns(HttpResponse(200, TRUE,
                                 <<Header("content-length", ContentLength999),
                                   Header("content-type", TextHtml),
                                   Header("x-powered-by", Foo)>>,
                                 BString(MsgCafe))),
   cased |-> Returns(HttpResponse(200, TRUE,
                                  <<Header("Content-Length", ContentLength999)>>,
                                  BString(HelloWorld))),
   echo |-> Echoes,
   shared |-> ReturnsShared(1),
   auth |-> Throws(AuthError(<<>>)),
   notFound |-> Throws(NotFoundError(MsgQuoted)),
   badInput |-> Throws(BadInputError(MsgCafe)),
   teapot |-> Throws(HttpError(418, HelloWorld)),
   error |-> Throws(Error(MsgCafe)),
   errorEmpty |-> Throws(Error(<<>>)),
   value |-> Throws(ThrownValue)]

RouteInputs ==
  {Route(StringMatcher(PathRoot), GET, FALSE, NoSchema, Handlers.hello),
   Route(StringMatcher(PathRoot), GET, FALSE, NoSchema, Handlers.auth),
   Route(StringMatcher(PathRoot), GET, FALSE, NoSchema, Handlers.html),
   Route(StringMatcher(PathRoot), GET, FALSE, NoSchema, Handlers.shared),
   Route(StringMatcher(PathRoot), GET, FALSE, NoSchema, Handlers.error),
   Route(StringMatcher(PathTest), GET, FALSE, NoSchema, Handlers.value),
   Route(StringMatcher(PathTest), GET, FALSE, NoSchema, Handlers.notFound),
   Route(StringMatcher(PathTest), GET, FALSE, NoSchema, Handlers.cased),
   Route(StringMatcher(PathTest), POST, FALSE, NoSchema, Handlers.empty),
   Route(RegExp(PathRoot, FALSE, FALSE, FALSE), GET, FALSE, NoSchema, Handlers.object),
   Route(RegExp(PathRoot, FALSE, FALSE, TRUE), GET, FALSE, NoSchema, Handlers.teapot),
   Route(RegExp(PathRoot, TRUE, TRUE, FALSE), POST, FALSE, NoSchema, Handlers.echo),
   Route(StringMatcher(PathRoot), POST, TRUE, SchemaFooBar, Handlers.echo),
   Route(StringMatcher(PathRoot), POST, TRUE, SchemaFooBarCopy, Handlers.badInput),
   Route(StringMatcher(PathTest), POST, TRUE, SchemaFooBar, Handlers.errorEmpty)}

RawMethods == {GET, POST, get_lower, HEAD}

RawUrls == {PathRoot, PathTest}

BodyTexts == {BodyValid, BodyEmptyObject, BodyNotJson, BodyHello, BodyEuro}

\* the bytes cut into n chunks of (nearly) equal length
Chunked(bs, n) ==
  [i \in 1..n |-> SubSeq(bs, ((i - 1) * Len(bs)) \div n + 1, (i * Len(bs)) \div n)]

\* the ways a body stream delivers its bytes: no chunk at all, or up to MaxChunks chunks
BodyStreams == {<<>>} \cup {Chunked(Utf8Encode(t), n) : t \in BodyTexts, n \in 1..MaxChunks}

\* every method token on every url without a body, a POST with every body
\* stream, and a message whose url is undefined
RawInputs ==
  [method : RawMethods, hasUrl : {TRUE}, url : RawUrls, chunks : {<<>>}]
    \cup [method : {POST}, hasUrl : {TRUE}, url : RawUrls, chunks : BodyStreams]
    \cup [method : {GET}, hasUrl : {FALSE}, url : {<<>>}, chunks : {<<>>}]

NoRaw == [method |-> <<>>, hasUrl |-> FALSE, url |-> <<>>, chunks |-> <<>>]

(***************************************************************************)
(* The state of one server created by createHttpServer.                    *)
(***************************************************************************)
VARIABLES
  routes,     \* the Route Table, in registration order
  debug,      \* the debug flag
  lifecycle,  \* "created", "listening" or "closed"
  cache,      \* the compiler cache: the entries (schema identity, validator) of the Map
  compiles,   \* for every schema identity, the number of runs of TypeCompiler.Compile
  shared,     \* the Response objects that handlers keep and return again
  serverLog,  \* the logger calls made outside any request
  reqs        \* the requests in flight: the state of each run of the request callback

vars == <<routes, debug, lifecycle, cache, compiles, shared, serverLog, reqs>>

ReqIds == 1..MaxInflight

\* no call of compile
NoCompile == [called |-> FALSE, validator |-> [schema |-> 0, run |-> 0], hit |-> FALSE]

\* a request callback that has not been invoked.  Besides the locals of the
\* callback the record keeps what the run saw and did: table is the Route Table
\* as the route loop found it, calls the handler invocations, outcome what the
\* handler returned or raised, wire the calls on the response handle
IdleReq ==
  [pc |-> "idle", raw |-> NoRaw, chunks |-> <<>>, data |-> BAbsent, request |-> NoRequest,
   table |-> <<>>, route |-> 0, compiled |-> NoCompile, calls |-> <<>>, outcome |-> NoOutcome,
   response |-> NoResponse, wire |-> <<>>, log |-> <<>>]

Init ==
  /\ routes = <<>>
  /\ debug = FALSE
  /\ lifecycle = "created"
  /\ cache = {}
  /\ compiles = [id \in SchemaIds |-> 0]
  /\ shared = SharedInit
  /\ serverLog = <<>>
  /\ reqs = [r \in ReqIds |-> IdleReq]

(***************************************************************************)
(* The control surface.                                                    *)
(***************************************************************************)
addRoute(route) ==
  /\ Len(routes) < MaxRoutes
  /\ routes' = Append(routes, route)
  /\ UNCHANGED <<debug, lifecycle, cache, compiles, shared, serverLog, reqs>>

setDebug(value) ==
  /\ debug' = value
  /\ UNCHANGED <<routes, lifecycle, cache, compiles, shared, serverLog, reqs>>

\* start(): server.listen(port); the "listening" event calls log.debug
start ==
  /\ lifecycle = "created"
  /\ lifecycle' = "listening"
  /\ serverLog' = Append(serverLog, "debug")
  /\ UNCHANGED <<routes, debug, cache, compiles, shared, reqs>>

\* shutdown(): server.close()
shutdown ==
  /\ lifecycle = "listening"
  /\ lifecycle' = "closed"
  /\ UNCHANGED <<routes, debug, cache, compiles, shared, serverLog, reqs>>

(***************************************************************************)
(* The request callback, one action per run between two suspension points. *)
(***************************************************************************)
\* cache.has(schema): the Map is keyed by the identity of the schema object
CacheHas(entries, schema) == \E e \in entries : e.schema = schema.id

\* cache.get(schema)
CacheGet(entries, schema) == CHOOSE e \in entries : e.schema = schema.id

\* cache.set(schema, compiler): an entry with the same key is replaced
CacheSet(entries, schema, validator) ==
  {e \in entries : e.schema # schema.id} \cup {validator}

\* TypeCompiler.Compile(schema): a new validator instance, named by the schema
\* and the number of the compilation that built it
TypeCompilerCompile(counts, schema) == [schema |-> schema.id, run |-> counts[schema.id] + 1]

\* mutant: compile without the look-up, every call compiles and stores again
cacheCompile_NoLookup(entries, counts, schema) ==
  LET compiler == TypeCompilerCompile(counts, schema)
  IN [cache |-> CacheSet(entries, schema, compiler),
      compiles |-> [counts EXCEPT ![schema.id] = @ + 1],
      validator |-> compiler, hit |-> FALSE]

\* mutant: the look-up compares the structure of the schemas, not their identity
cacheCompile_ByStructure(entries, counts, schema) ==
  LET same == {e \in entries : \E other \in {SchemaFooBar, SchemaFooBarCopy} :
                                   other.id = e.schema /\ other.props = schema.props}
  IN IF same # {}
     THEN [cache |-> entries, compiles |-> counts,
           validator |-> CHOOSE e \in same : TRUE, hit |-> TRUE]
     ELSE LET compiler == TypeCompilerCompile(counts, schema)
          IN [cache |-> CacheSet(entries, schema, compiler),
              compiles |-> [counts EXCEPT ![schema.id] = @ + 1],
              validator |-> compiler, hit |-> FALSE]

\* compile(schema) of the compiler cache: the cache and the compilation
\* counts it leaves, the validator it returns, and whether that was cached
cacheCompile(entries, counts, schema) ==
  IF CacheHas(entries, schema)
  THEN [cache |-> entries, compiles |-> counts,
        validator |-> CacheGet(entries, schema), hit |-> TRUE]
  ELSE LET compiler == TypeCompilerCompile(counts, schema)
       IN [cache |-> CacheSet(entries, schema, compiler),
           compiles |-> [counts EXCEPT ![schema.id] = @ + 1],
           validator |-> compiler, hit |-> FALSE]

\* what a call of compilerCache.compile(schema) in the current state returns
CompileCall(schema) ==
  LET c == cacheCompile(cache, compiles, schema)
  IN [called |-> TRUE, validator |-> c.validator, hit |-> c.hit]

\* compilerCache.compile(schema)
compile(schema) ==
  /\ cache' = cacheCompile(cache, compiles, schema).cache
  /\ compiles' = cacheCompile(cache, compiles, schema).compiles

\* the serialiser and the three calls on the response handle, for the response
\* the route loop ended with; ref names the shared object the response is, if any
Respond(r, cur, response, ref) ==
  LET ser == Serialize(response)
  IN /\ reqs' = [reqs EXCEPT ![r] = [cur EXCEPT !.pc = "done",
                                                !.response = ser.response,
                                                !.wire = WireOf(ser)]]
     /\ shared' = IF ref \in SharedRefs THEN [shared EXCEPT ![ref] = ser.response] ELSE shared

\* the listener invokes the callback: parseRequest evaluates parsePath and
\* parseMethod, then starts to read the body; a throw of parseMethod rejects
\* the promise of the callback, which nothing handles
Receive(r, raw) ==
  /\ lifecycle = "listening"
  /\ reqs[r].pc \in {"idle", "done", "rejected"}
  /\ reqs' = [reqs EXCEPT ![r] =
       IF parseMethodAccepts(raw)
       THEN [IdleReq EXCEPT !.pc = "body", !.raw = raw, !.chunks = raw.chunks,
                            !.request = HttpRequest(parsePath(raw), parseMethod(raw), BAbsent)]
       ELSE [IdleReq EXCEPT !.pc = "rejected", !.raw = raw]]
  /\ UNCHANGED <<routes, debug, lifecycle, cache, compiles, shared, serverLog>>

\* parseBody receives one chunk
BodyChunk(r) ==
  /\ reqs[r].pc = "body"
  /\ reqs[r].chunks # <<>>
  /\ reqs' = [reqs EXCEPT ![r].data = parseBodyChunk(@, Head(reqs[r].chunks)),
                          ![r].chunks = Tail(@)]
  /\ UNCHANGED <<routes, debug, lifecycle, cache, compiles, shared, serverLog>>

\* a request record after the serialiser and the three calls on the response handle
Responded(cur, response) ==
  LET ser == Serialize(response)
  IN [cur EXCEPT !.pc = "done", !.response = ser.response, !.wire = WireOf(ser)]

\* if (debug) log.debug(request)
debugLog(dbg) == IF dbg THEN <<"debug">> ELSE <<>>

\* the try block for a route with validators, given what validateRequestBody
\* (v) and, when it is reached, compilerCache.compile (c) come to
validatedOutcome(cur, request, found, route, v, c) ==
  [req |-> IF v.ok
           THEN [cur EXCEPT !.compiled = [called |-> TRUE, validator |-> c.validator, hit |-> c.hit],
                            !.pc = "handler",
                            !.calls = Append(@, [route |-> found.index,
                                                 request |-> [request EXCEPT !.body = v.body]]),
                            !.outcome = RunHandler(route.handler, [request EXCEPT !.body = v.body])]
           ELSE Responded([cur EXCEPT !.compiled =
                                        IF v.compiled
                                        THEN [called |-> TRUE, validator |-> c.validator, hit |-> c.hit]
                                        ELSE NoCompile,
                                      !.log = Append(@, "error")],
                          parseErrorResponse(v.err)),
   routes |-> found.routes,
   cache |-> IF v.compiled THEN c.cache ELSE cache,
   compiles |-> IF v.compiled THEN c.compiles ELSE compiles]

\* the body of the route loop for the route found (none: index 0): validation
\* and the handler call inside the try, the catch, and without a pending
\* handler the serialiser; the request record, the Route Table and the
\* compiler cache as the run leaves them
evaluateRoute(cur, request, found) ==
  IF found.index = 0
  THEN [req |-> Responded(cur, DefaultResponse), routes |-> found.routes,
        cache |-> cache, compiles |-> compiles]
  ELSE IF isRouteWithValidations(routes[found.index])
       THEN validatedOutcome(cur, request, found, routes[found.index],
                             validateRequestBody(request, routes[found.index].schema),
                             cacheCompile(cache, compiles, routes[found.index].schema))
       ELSE [req |-> [cur EXCEPT !.pc = "handler",
                                 !.calls = Append(@, [route |-> found.index,
                                                      request |-> request]),
                                 !.outcome = RunHandler(routes[found.index].handler, request)],
             routes |-> found.routes, cache |-> cache, compiles |-> compiles]

\* the callback from the complete request on: the debug log, then the route
\* loop with the route that the search found
loggedRouteLoop(r, dbg, request, found) ==
  evaluateRoute([reqs[r] EXCEPT !.request = request, !.table = routes, !.route = found.index,
                                !.log = debugLog(dbg)],
                request, found)

\* no route found
NotFound == [routes |-> routes, index |-> 0]

\* mutant: with debug set the callback logs the request and skips the route loop
routeLoop_DebugSkipsRoutes(r, dbg) ==
  loggedRouteLoop(r, dbg, [reqs[r].request EXCEPT !.body = reqs[r].data],
                  IF dbg THEN NotFound
                  ELSE FindRoute([reqs[r].request EXCEPT !.body = reqs[r].data], routes, 1))

\* the run of the callback from the end of the body stream to the handler
\* call (or, without one, to the end), with the debug flag dbg
routeLoop(r, dbg) ==
  loggedRouteLoop(r, dbg, [reqs[r].request EXCEPT !.body = reqs[r].data],
                  FindRoute([reqs[r].request EXCEPT !.body = reqs[r].data], routes, 1))

\* the body stream ends: the request is complete, the callback logs it when
\* debug is set, walks the routes and, at the first match, validates the body
\* (a route with validators) and calls the handler; without a match, or when
\* the validation throws, it goes on to write the response
Dispatch(r) ==
  /\ reqs[r].pc = "body"
  /\ reqs[r].chunks = <<>>
  /\ \E run \in {routeLoop(r, debug)} :
       /\ reqs' = [reqs EXCEPT ![r] = run.req]
       /\ routes' = run.routes
       /\ cache' = run.cache
       /\ compiles' = run.compiles
  /\ UNCHANGED <<debug, lifecycle, shared, serverLog>>

\* mutant: the response is a variable outside the callback, so the run that
\* resumes writes what the latest pending handler call left in it
HandlerSettles_SharedResponse(r) ==
  /\ reqs[r].pc = "handler"
  /\ \E q \in {p \in DOMAIN reqs : /\ reqs[p].pc = "handler"
                                   /\ \A o \in DOMAIN reqs : reqs[o].pc = "handler" => o <= p} :
       LET out == reqs[q].outcome
           cur == [reqs[r] EXCEPT !.outcome = [out EXCEPT !.response =
                     IF out.ref \in SharedRefs THEN shared[out.ref] ELSE @]]
       IN IF out.threw
          THEN Respond(r, [cur EXCEPT !.log = Append(@, "error")], parseErrorResponse(out.err), 0)
          ELSE IF out.ref \in SharedRefs
               THEN Respond(r, cur, shared[out.ref], out.ref)
               ELSE Respond(r, cur, out.response, 0)
  /\ UNCHANGED <<routes, debug, lifecycle, cache, compiles, serverLog>>

\* the promise of the handler settles: its Response, or the translation of
\* the failure it raised, is serialised and written
HandlerSettles(r) ==
  /\ reqs[r].pc = "handler"
  /\ LET out == reqs[r].outcome
         cur == [reqs[r] EXCEPT !.outcome.response =
                   IF out.ref \in SharedRefs THEN shared[out.ref] ELSE @]
     IN IF out.threw
        THEN Respond(r, [cur EXCEPT !.log = Append(@, "error")], parseErrorResponse(out.err), 0)
        ELSE IF out.ref \in SharedRefs
             THEN Respond(r, cur, shared[out.ref], out.ref)
             ELSE Respond(r, cur, out.response, 0)
  /\ UNCHANGED <<routes, debug, lifecycle, cache, compiles, serverLog>>

Next ==
  \/ \E route \in RouteInputs : addRoute(route)
  \/ \E value \in BOOLEAN : setDebug(value)
  \/ start
  \/ shutdown
  \/ \E r \in ReqIds, raw \in RawInputs : Receive(r, raw)
  \/ \E r \in ReqIds : BodyChunk(r)
  \/ \E r \in ReqIds : Dispatch(r)
  \/ \E r \in ReqIds : HandlerSettles(r)

Spec == Init /\ [][Next]_vars

(***************************************************************************)
(* The typed server (src/src/typed-server.ts).  createTypedHttpServer       *)
(* hands its routeEvaluator to the createHttpServer of the options-based    *)
(* server module, whose request callback is modelled after sections 4.1 to  *)
(* 4.4 and 7 of the specification: normalise the request, walk the routes,  *)
(* evaluate the first match inside the catch boundary, serialise.           *)
(***************************************************************************)
\* a matcher of the typed server: an exact string or a RegExp, both over the
\* literal "<METHOD> <path>", or a predicate function; the predicates that
\* the model registers check request.method === method && request.path === path
LiteralMatcher(literal) ==
  [kind |-> "string", source |-> literal, anchorStart |-> FALSE, anchorEnd |-> FALSE,
   global |-> FALSE, lastIndex |-> 0, method |-> <<>>, path |-> <<>>]

PatternMatcher(source, anchorStart, anchorEnd, global) ==
  [kind |-> "regexp", source |-> source, anchorStart |-> anchorStart, anchorEnd |-> anchorEnd,
   global |-> global, lastIndex |-> 0, method |-> <<>>, path |-> <<>>]

PredicateMatcher(method, path) ==
  [kind |-> "predicate", source |-> <<>>, anchorStart |-> FALSE, anchorEnd |-> FALSE,
   global |-> FALSE, lastIndex |-> 0, method |-> method, path |-> path]

\* a plain Route {matcher, handler}
PlainRoute(matcher, handler) ==
  [matcher |-> matcher, typed |-> FALSE, schema |-> NoSchema, handler |-> handler]

\* a TypedRoute {matcher, schema: {body}, handler}
TypedRoute(matcher, schema, handler) ==
  [matcher |-> matcher, typed |-> TRUE, schema |-> schema, handler |-> handler]

\* the literal "<METHOD> <path>" formed from the request
RequestLiteral(request) == request.method \o <<" ">> \o request.path

\* mutant: the string matcher is compared with the path alone
matchTyped_PathOnly(request, route) ==
  CASE route.matcher.kind = "string" ->
         [matched |-> route.matcher.source = request.path,
          lastIndex |-> route.matcher.lastIndex]
    [] route.matcher.kind = "regexp" -> RegExpTest(route.matcher, RequestLiteral(request))
    [] OTHER ->
         [matched |-> request.method = route.matcher.method /\ request.path = route.matcher.path,
          lastIndex |-> route.matcher.lastIndex]

\* the Route Matcher
matchTyped(request, route) ==
  CASE route.matcher.kind = "string" ->
         [matched |-> route.matcher.source = RequestLiteral(request),
          lastIndex |-> route.matcher.lastIndex]
    [] route.matcher.kind = "regexp" -> RegExpTest(route.matcher, RequestLiteral(request))
    [] OTHER ->
         [matched |-> request.method = route.matcher.method /\ request.path = route.matcher.path,
          lastIndex |-> route.matcher.lastIndex]

RECURSIVE TypedFindRoute(_, _, _)
\* the Dispatcher's walk of the Route Table: the first match, 0 when none
TypedFindRoute(request, rts, i) ==
  IF i > Len(rts) THEN [routes |-> rts, index |-> 0]
  ELSE LET m == matchTyped(request, rts[i])
           tested == [rts EXCEPT ![i].matcher.lastIndex = m.lastIndex]
       IN IF m.matched THEN [routes |-> tested, index |-> i]
          ELSE TypedFindRoute(request, tested, i + 1)

isTypedRoute(route) == route.typed

\* "typed" in request
isTypedRequest(request) == "typed" \in DOMAIN request

TypedRequest(request, body) ==
  [path |-> request.path, method |-> request.method, body |-> body, typed |-> TRUE]

\* mutant: the decoded body reaches the handler without validator.Check
routeEvaluator_NoCheck(request, route) ==
  IF isTypedRoute(route)
  THEN IF route.schema # NoSchema /\ request.body.kind = "string"
       THEN LET parsed == JSONparse(request.body.text)
            IN IF ~parsed.ok
               THEN [threw |-> TRUE, err |-> SyntaxError, request |-> request, compiled |-> FALSE]
               ELSE [threw |-> FALSE, err |-> NoError,
                     request |-> TypedRequest(request, BValue(parsed.val)), compiled |-> TRUE]
       ELSE [threw |-> TRUE, err |-> BadInputError(ExpectedBodyString), request |-> request,
             compiled |-> FALSE]
  ELSE [threw |-> FALSE, err |-> NoError, request |-> request, compiled |-> FALSE]

\* the routeEvaluator of createTypedHttpServer, up to the call of the handler:
\* the failure it throws, or the request it calls route.handler with;
\* compiled tells whether compiler.compile was reached
routeEvaluator(request, route) ==
  IF isTypedRoute(route)
  THEN IF route.schema # NoSchema /\ request.body.kind = "string"
       THEN LET parsed == JSONparse(request.body.text)
            IN IF ~parsed.ok
               THEN [threw |-> TRUE, err |-> SyntaxError, request |-> request, compiled |-> FALSE]
               ELSE IF ~Check(parsed.val, route.schema)
                    THEN [threw |-> TRUE, err |-> BadInputError(InvalidRequestBody),
                          request |-> request, compiled |-> TRUE]
                    ELSE [threw |-> FALSE, err |-> NoError,
                          request |-> TypedRequest(request, BValue(parsed.val)),
                          compiled |-> TRUE]
       ELSE [threw |-> TRUE, err |-> BadInputError(ExpectedBodyString), request |-> request,
             compiled |-> FALSE]
  ELSE IF ~isTypedRequest(request)
       THEN [threw |-> FALSE, err |-> NoError, request |-> request, compiled |-> FALSE]
       ELSE [threw |-> TRUE, err |-> BadInputError(UnexpectedInput), request |-> request,
             compiled |-> FALSE]

\* the failure translation of the Dispatcher's catch boundary: the status an
\* HttpError carries, 500 for any other failure, the message in the envelope
translateFailure(err) == parseErrorResponse(err)

\* the conditions (method, path) that the matchers of the model encode
Conditions == [method : {GET, POST}, path : {PathRoot, PathTest}]

LiteralOf(c) == c.method \o <<" ">> \o c.path

TypedRouteInputs ==
  {PlainRoute(LiteralMatcher(LiteralOf(c)), Handlers.hello) : c \in Conditions}
    \cup {PlainRoute(PatternMatcher(LiteralOf(c), TRUE, TRUE, FALSE), Handlers.object) :
            c \in {[method |-> GET, path |-> PathRoot]}}
    \cup {PlainRoute(PredicateMatcher(c.method, c.path), Handlers.auth) :
            c \in {[method |-> GET, path |-> PathRoot]}}
    \cup {PlainRoute(PatternMatcher(LiteralOf([method |-> GET, path |-> PathRoot]),
                                    FALSE, FALSE, FALSE), Handlers.error),
          PlainRoute(LiteralMatcher(LiteralOf([method |-> POST, path |-> PathRoot])),
                     Handlers.echo)}

TypedRouteWithSchemaInputs ==
  {TypedRoute(LiteralMatcher(LiteralOf([method |-> POST, path |-> PathRoot])),
              SchemaFooBar, Handlers.hello),
   TypedRoute(LiteralMatcher(LiteralOf([method |-> POST, path |-> PathRoot])),
              SchemaFooBarCopy, Handlers.echo),
   TypedRoute(PredicateMatcher(POST, PathTest), SchemaFooBar, Handlers.badInput)}

\* the typed server is sent requests whose method is one of HttpMethods
TypedRawInputs == {raw \in RawInputs : raw.method \in {GET, POST}}

TypedInit == Init

\* mutant: the route is put in front of the table
TypedAddRoute_Unshift(route) ==
  /\ Len(routes) < MaxRoutes
  /\ routes' = <<route>> \o routes
  /\ UNCHANGED <<debug, lifecycle, cache, compiles, shared, serverLog, reqs>>

\* typedServerInstanceFactory: addRoute
TypedAddRoute(route) ==
  /\ Len(routes) < MaxRoutes
  /\ routes' = Append(routes, route)
  /\ UNCHANGED <<debug, lifecycle, cache, compiles, shared, serverLog, reqs>>

\* typedServerInstanceFactory: addTypedRoute
addTypedRoute(route) ==
  /\ Len(routes) < MaxRoutes
  /\ routes' = Append(routes, route)
  /\ UNCHANGED <<debug, lifecycle, cache, compiles, shared, serverLog, reqs>>

\* typedServerInstanceFactory: debug(debug)
TypedDebug(value) ==
  /\ debug' = value
  /\ UNCHANGED <<routes, lifecycle, cache, compiles, shared, serverLog, reqs>>

\* typedServerInstanceFactory: start()
TypedStart ==
  /\ lifecycle = "created"
  /\ lifecycle' = "listening"
  /\ UNCHANGED <<routes, debug, cache, compiles, shared, serverLog, reqs>>

\* typedServerInstanceFactory: stop()
stop ==
  /\ lifecycle = "listening"
  /\ lifecycle' = "closed"
  /\ UNCHANGED <<routes, debug, cache, compiles, shared, serverLog, reqs>>

\* the Request Normalizer starts on an inbound message
TypedReceive(r, raw) ==
  /\ lifecycle = "listening"
  /\ reqs[r].pc \in {"idle", "done"}
  /\ reqs' = [reqs EXCEPT ![r] =
       [IdleReq EXCEPT !.pc = "body", !.raw = raw, !.chunks = raw.chunks,
                       !.request = HttpRequest(parsePath(raw), raw.method, BAbsent)]]
  /\ UNCHANGED <<routes, debug, lifecycle, cache, compiles, shared, serverLog>>

\* the Request Normalizer reads one chunk of the body stream
TypedBodyChunk(r) ==
  /\ reqs[r].pc = "body"
  /\ reqs[r].chunks # <<>>
  /\ reqs' = [reqs EXCEPT ![r].data = parseBodyChunk(@, Head(reqs[r].chunks)),
                          ![r].chunks = Tail(@)]
  /\ UNCHANGED <<routes, debug, lifecycle, cache, compiles, shared, serverLog>>

\* the Dispatcher: the default response, the first matching route, the
\* routeEvaluator inside the catch boundary
TypedDispatch(r) ==
  /\ reqs[r].pc = "body"
  /\ reqs[r].chunks = <<>>
  /\ LET request == [reqs[r].request EXCEPT !.body = reqs[r].data]
         found == TypedFindRoute(request, routes, 1)
         route == routes[found.index]
         logged == IF debug THEN <<"debug">> ELSE <<>>
         cur == [reqs[r] EXCEPT !.request = request, !.table = routes, !.route = found.index,
                                !.log = logged]
     IN /\ routes' = found.routes
        /\ IF found.index = 0
           THEN /\ Respond(r, cur, DefaultResponse, 0)
                /\ UNCHANGED <<cache, compiles>>
           ELSE LET ev == routeEvaluator(request, route)
                    seen == [cur EXCEPT !.compiled =
                               IF ev.compiled THEN CompileCall(route.schema) ELSE NoCompile]
                IN /\ IF ev.compiled THEN compile(route.schema)
                                     ELSE UNCHANGED <<cache, compiles>>
                   /\ IF ev.threw
                      THEN Respond(r, seen, translateFailure(ev.err), 0)
                      ELSE /\ reqs' = [reqs EXCEPT ![r] =
                                [seen EXCEPT !.pc = "handler",
                                            !.calls = Append(@, [route |-> found.index, request |-> ev.request]),
                                            !.outcome = RunHandler(route.handler, ev.request)]]
                           /\ UNCHANGED shared
  /\ UNCHANGED <<debug, lifecycle, serverLog>>

\* the promise that the routeEvaluator returned settles
TypedHandlerSettles(r) ==
  /\ reqs[r].pc = "handler"
  /\ LET out == reqs[r].outcome
         cur == [reqs[r] EXCEPT !.outcome.response =
                   IF out.ref \in SharedRefs THEN shared[out.ref] ELSE @]
     IN IF out.threw
        THEN Respond(r, cur, translateFailure(out.err), 0)
        ELSE IF out.ref \in SharedRefs
             THEN Respond(r, cur, shared[out.ref], out.ref)
             ELSE Respond(r, cur, out.response, 0)
  /\ UNCHANGED <<routes, debug, lifecycle, cache, compiles, serverLog>>

TypedNext ==
  \/ \E route \in TypedRouteInputs : TypedAddRoute(route)
  \/ \E route \in TypedRouteWithSchemaInputs : addTypedRoute(route)
  \/ \E value \in BOOLEAN : TypedDebug(value)
  \/ TypedStart
  \/ stop
  \/ \E r \in ReqIds, raw \in TypedRawInputs : TypedReceive(r, raw)
  \/ \E r \in ReqIds : TypedBodyChunk(r)
  \/ \E r \in ReqIds : TypedDispatch(r)
  \/ \E r \in ReqIds : TypedHandlerSettles(r)

TypedSpec == TypedInit /\ [][TypedNext]_vars


(***************************************************************************)
(* Several requests in flight on one server: the same callback, run by     *)
(* MaxConcurrent connections whose runs interleave at the suspension       *)
(* points (each chunk of the body, the await of the handler).              *)
(***************************************************************************)
MaxConcurrent == 2

ConcIds == 1..MaxConcurrent

\* a handler that keeps one Response object, a pattern with the global flag,
\* and two routes that validate with the same schema object
ConcRouteInputs ==
  {Route(StringMatcher(PathRoot), GET, FALSE, NoSchema, Handlers.shared),
   Route(RegExp(PathRoot, FALSE, FALSE, TRUE), GET, FALSE, NoSchema, Handlers.teapot),
   Route(StringMatcher(PathRoot), POST, TRUE, SchemaFooBar, Handlers.echo),
   Route(StringMatcher(PathTest), POST, TRUE, SchemaFooBar, Handlers.errorEmpty)}

\* a GET without a body, and POSTs whose body comes in MaxChunks chunks
ConcRawInputs ==
  [method : {GET}, hasUrl : {TRUE}, url : {PathRoot}, chunks : {<<>>}]
    \cup [method : {POST}, hasUrl : {TRUE}, url : RawUrls,
          chunks : {Chunked(Utf8Encode(t), MaxChunks) : t \in {BodyValid, BodyEmptyObject}}]

ConcInit ==
  /\ routes = <<>>
  /\ debug = FALSE
  /\ lifecycle = "created"
  /\ cache = {}
  /\ compiles = [id \in SchemaIds |-> 0]
  /\ shared = SharedInit
  /\ serverLog = <<>>
  /\ reqs = [r \in ConcIds |-> IdleReq]

ConcNext ==
  \/ \E route \in ConcRouteInputs : addRoute(route)
  \/ start
  \/ \E r \in ConcIds, raw \in ConcRawInputs : Receive(r, raw)
  \/ \E r \in ConcIds : BodyChunk(r)
  \/ \E r \in ConcIds : Dispatch(r)
  \/ \E r \in ConcIds : HandlerSettles(r)

ConcSpec == ConcInit /\ [][ConcNext]_vars


(***************************************************************************)
(* Vocabulary of the properties.                                           *)
(***************************************************************************)
\* the route loop of request r has run (the action Dispatch)
Dispatched(r) == reqs[r].pc \in {"handler", "done"}

\* the promise of the handler of request r has settled and the response is written
Settled(r) == reqs[r].pc = "done" /\ reqs[r].calls # <<>>

\* the positions of the routes of a table whose matcher is true of a request
MatchingRoutes(request, rts) == {i \in 1..Len(rts) : matchRoute(request, rts[i]).matched}

\* what the response handle received: one writeHead, at most one write, one end
WrittenOnce(wire) ==
  /\ Len(wire) \in {2, 3}
  /\ wire[1].op = "writeHead"
  /\ wire[Len(wire)].op = "end"
  /\ Len(wire) = 3 => wire[2].op = "write"

SentStatus(wire) == wire[1].statusCode

SentHeaders(wire) == wire[1].headers

SentText(wire) == IF Len(wire) = 3 THEN wire[2].text ELSE <<>>

\* the body sent decodes to the error envelope {error: message}
SentEnvelope(wire, message) ==
  LET decoded == JSONparse(SentText(wire))
  IN decoded.ok /\ decoded.val = JObj(<<Member(ErrorKey, JStr(message))>>)

(***************************************************************************)
(* C1.  When no route of the Route Table matches the request (the empty    *)
(* table included), the route loop invokes no handler and the response     *)
(* written is status 500, content-type text/plain, body "invalid route".   *)
(***************************************************************************)
C1_DefaultMiss ==
  \A r \in ReqIds :
    (Dispatched(r) /\ MatchingRoutes(reqs[r].request, reqs[r].table) = {})
      => /\ reqs[r].pc = "done"
         /\ reqs[r].calls = <<>>
         /\ WrittenOnce(reqs[r].wire)
         /\ SentStatus(reqs[r].wire) = 500
         /\ HasHeader(SentHeaders(reqs[r].wire), "content-type")
         /\ GetHeader(SentHeaders(reqs[r].wire), "content-type") = TextPlain
         /\ SentText(reqs[r].wire) = InvalidRoute

\* a request answered from a non-empty table of which no route matched
C1_Witness ==
  \E r \in ReqIds :
    /\ reqs[r].pc = "done"
    /\ reqs[r].table # <<>>
    /\ MatchingRoutes(reqs[r].request, reqs[r].table) = {}
    /\ SentText(reqs[r].wire) = InvalidRoute

(***************************************************************************)
(* C2.  For every request at most one handler is invoked, at most once: the *)
(* handler of the first route in registration order whose matcher is true.  *)
(* That stays so when its promise has settled, by a Response or by a        *)
(* failure: no later route that matches is run.                            *)
(***************************************************************************)
C2_FirstMatchOnly ==
  \A r \in ReqIds :
    /\ Len(reqs[r].calls) <= 1
    /\ reqs[r].calls # <<>>
         => /\ reqs[r].calls[1].route \in MatchingRoutes(reqs[r].request, reqs[r].table)
            /\ \A i \in MatchingRoutes(reqs[r].request, reqs[r].table) : reqs[r].calls[1].route <= i

\* two routes match the request, the handler of the first one failed, the
\* response is written and only that handler was invoked
C2_Witness ==
  \E r \in ReqIds :
    /\ Settled(r)
    /\ MatchingRoutes(reqs[r].request, reqs[r].table) = {1, 2}
    /\ reqs[r].outcome.threw
    /\ Len(reqs[r].calls) = 1
    /\ reqs[r].calls[1].route = 1

(***************************************************************************)
(* C3.  Every request handed to the callback, whatever its method, is      *)
(* answered: when the run of the callback has ended, the response handle    *)
(* has received exactly one writeHead and a closing end.                   *)
(***************************************************************************)
C3_AlwaysAnswered ==
  \A r \in ReqIds :
    reqs[r].pc \in {"done", "rejected"} => WrittenOnce(reqs[r].wire)

(***************************************************************************)
(* C4.  When the handler raises an HttpError of status s and message m, the *)
(* response status is s and the body is the envelope {error: m}.           *)
(***************************************************************************)
C4_HttpErrorStatus ==
  \A r \in ReqIds :
    (Settled(r) /\ reqs[r].outcome.threw /\ reqs[r].outcome.err.kind = "HttpError")
      => /\ WrittenOnce(reqs[r].wire)
         /\ SentStatus(reqs[r].wire) = reqs[r].outcome.err.statusCode
         /\ SentEnvelope(reqs[r].wire, reqs[r].outcome.err.message)

\* the handler raised AuthError("") and the response is 401
C4_Witness ==
  \E r \in ReqIds :
    /\ Settled(r)
    /\ reqs[r].outcome.threw
    /\ reqs[r].outcome.err = AuthError(<<>>)
    /\ SentStatus(reqs[r].wire) = 401

(***************************************************************************)
(* C5.  When the handler raises a failure that is no HttpError, the         *)
(* response status is 500 and the body carries the message of the Error,    *)
(* or "internal server error" when the raised value is no Error.           *)
(***************************************************************************)
C5_GenericFault ==
  \A r \in ReqIds :
    (Settled(r) /\ reqs[r].outcome.threw /\ reqs[r].outcome.err.kind # "HttpError")
      => /\ WrittenOnce(reqs[r].wire)
         /\ SentStatus(reqs[r].wire) = 500
         /\ SentEnvelope(reqs[r].wire,
                         IF reqs[r].outcome.err.kind = "Error"
                         THEN reqs[r].outcome.err.message ELSE InternalServerError)

\* the handler raised a value that is no Error and the response is 500
C5_Witness ==
  \E r \in ReqIds :
    /\ Settled(r)
    /\ reqs[r].outcome.threw
    /\ reqs[r].outcome.err = ThrownValue
    /\ SentStatus(reqs[r].wire) = 500

(***************************************************************************)
(* C6.  On a typed server, when the first matching route is typed: a body   *)
(* that is a string and decodes to a value satisfying the body schema makes *)
(* the Dispatcher invoke the typed handler once, with the decoded value,    *)
(* and send the handler's response; an absent body, or a decoded value that *)
(* fails the schema, means no invocation and status 400.                   *)
(***************************************************************************)
MatchingTyped(request, rts) == {i \in 1..Len(rts) : matchTyped(request, rts[i]).matched}

\* the first route of the table of request r that matches is a typed route
FirstMatchIsTyped(r) ==
  LET m == MatchingTyped(reqs[r].request, reqs[r].table)
  IN /\ Dispatched(r)
     /\ m # {}
     /\ reqs[r].table[CHOOSE i \in m : \A j \in m : i <= j].typed

FirstTypedIndex(r) ==
  LET m == MatchingTyped(reqs[r].request, reqs[r].table)
  IN CHOOSE i \in m : \A j \in m : i <= j

C6_TypedValidation ==
  \A r \in ReqIds :
    FirstMatchIsTyped(r) =>
      LET body == reqs[r].request.body
          schema == reqs[r].table[FirstTypedIndex(r)].schema
          decoded == JSONparse(body.text)
      IN /\ (body.kind = "string" /\ decoded.ok /\ Check(decoded.val, schema))
              => /\ reqs[r].calls =
                      <<[route |-> FirstTypedIndex(r),
                         request |-> TypedRequest(reqs[r].request, BValue(decoded.val))]>>
                 /\ (reqs[r].pc = "done" /\ ~reqs[r].outcome.threw)
                      => /\ WrittenOnce(reqs[r].wire)
                         /\ SentStatus(reqs[r].wire) = reqs[r].outcome.response.statusCode
         /\ (body.kind = "absent" \/ (decoded.ok /\ ~Check(decoded.val, schema)))
              => /\ reqs[r].pc = "done"
                 /\ reqs[r].calls = <<>>
                 /\ WrittenOnce(reqs[r].wire)
                 /\ SentStatus(reqs[r].wire) = 400

\* {"foo":"str","bar":1} was posted to a typed route: the handler ran and the
\* response is its 200
C6_Witness ==
  \E r \in ReqIds :
    /\ FirstMatchIsTyped(r)
    /\ reqs[r].pc = "done"
    /\ reqs[r].request.body = BString(BodyValid)
    /\ Len(reqs[r].calls) = 1
    /\ reqs[r].calls[1].request.body.val.t = "object"
    /\ SentStatus(reqs[r].wire) = 200

(***************************************************************************)
(* C7.  On a typed server, when the first matching route is typed and the   *)
(* body is a string that is no valid JSON, the typed handler is not invoked *)
(* and the response status is 400.                                         *)
(***************************************************************************)
C7_MalformedJsonIs400 ==
  \A r \in ReqIds :
    (/\ FirstMatchIsTyped(r)
     /\ reqs[r].request.body.kind = "string"
     /\ ~JSONparse(reqs[r].request.body.text).ok)
      => /\ reqs[r].pc = "done"
         /\ reqs[r].calls = <<>>
         /\ SentStatus(reqs[r].wire) = 400

(***************************************************************************)
(* C8.  In createHttpServer, when the first matching route has validators   *)
(* and the body is absent, is no valid JSON or fails the schema, the        *)
(* handler is not invoked and the response status is 400.                  *)
(***************************************************************************)
C8_ValidationIs400 ==
  \A r \in ReqIds :
    (/\ Dispatched(r)
     /\ reqs[r].route # 0
     /\ isRouteWithValidations(reqs[r].table[reqs[r].route])
     /\ \/ reqs[r].request.body.kind = "absent"
        \/ ~JSONparse(reqs[r].request.body.text).ok
        \/ ~Check(JSONparse(reqs[r].request.body.text).val, reqs[r].table[reqs[r].route].schema))
      => /\ reqs[r].pc = "done"
         /\ reqs[r].calls = <<>>
         /\ SentStatus(reqs[r].wire) = 400

(***************************************************************************)
(* C9.  For the request GET / and a table of one route, the route is        *)
(* selected whether its matcher is the string "GET /", a pattern equivalent *)
(* to it, or a predicate checking method = GET and path = /; and for every  *)
(* request and every condition (method, path), the string, the anchored     *)
(* pattern and the predicate that encode the condition give the same        *)
(* answer: the request has that method and that path.                      *)
(***************************************************************************)
GetRoot == [method |-> GET, path |-> PathRoot]

C9_MatchersAgree ==
  \A r \in ReqIds :
    Dispatched(r) =>
      /\ \A c \in Conditions :
           LET byString == matchTyped(reqs[r].request,
                                      PlainRoute(LiteralMatcher(LiteralOf(c)), NoHandler)).matched
               byPattern == matchTyped(reqs[r].request,
                                       PlainRoute(PatternMatcher(LiteralOf(c), TRUE, TRUE, FALSE),
                                                  NoHandler)).matched
               byPredicate == matchTyped(reqs[r].request,
                                         PlainRoute(PredicateMatcher(c.method, c.path),
                                                    NoHandler)).matched
           IN /\ byString = byPattern
              /\ byPattern = byPredicate
              /\ byPredicate = (reqs[r].request.method = c.method /\ reqs[r].request.path = c.path)
      /\ (/\ Len(reqs[r].table) = 1
          /\ reqs[r].request.method = GET
          /\ reqs[r].request.path = PathRoot
          /\ reqs[r].table[1].matcher \in
               {LiteralMatcher(LiteralOf(GetRoot)),
                PatternMatcher(LiteralOf(GetRoot), TRUE, TRUE, FALSE),
                PatternMatcher(LiteralOf(GetRoot), FALSE, FALSE, FALSE),
                PredicateMatcher(GET, PathRoot)})
           => reqs[r].route = 1

\* GET / was dispatched against a table holding one route with a pattern matcher
C9_Witness ==
  \E r \in ReqIds :
    /\ reqs[r].pc = "done"
    /\ reqs[r].request.method = GET
    /\ reqs[r].request.path = PathRoot
    /\ Len(reqs[r].table) = 1
    /\ reqs[r].table[1].matcher = PatternMatcher(LiteralOf(GetRoot), TRUE, TRUE, FALSE)
    /\ reqs[r].route = 1

(***************************************************************************)
(* C10.  For every Response a handler returns with a present, non-null      *)
(* body: an object body is sent as its JSON text, any other body as its     *)
(* text; content-length is the byte length of the text sent; content-type   *)
(* is application/json for an object and text/plain otherwise.  As amended: *)
(* unless the Response's own headers carry a content-type, which is then    *)
(* the one sent.                                                           *)
(***************************************************************************)
\* the handler of request r returned a Response with a present body, now written
ReturnedBody(r) ==
  /\ Settled(r)
  /\ ~reqs[r].outcome.threw
  /\ bodyPresent(reqs[r].outcome.response)

\* the text sent is the body returned: the JSON text of an object, the string itself
SentAsReturned(r) ==
  LET body == reqs[r].outcome.response.body
      text == SentText(reqs[r].wire)
  IN /\ WrittenOnce(reqs[r].wire)
     /\ IF isObjectBody(body)
        THEN JSONparse(text).ok /\ JSONparse(text).val = body.val
        ELSE body.kind = "string" /\ text = body.text
     /\ HasHeader(SentHeaders(reqs[r].wire), "content-length")
     /\ GetHeader(SentHeaders(reqs[r].wire), "content-length") = toString(byteLength(text))
     /\ HasHeader(SentHeaders(reqs[r].wire), "content-type")

InferredContentType(r) ==
  IF isObjectBody(reqs[r].outcome.response.body) THEN ApplicationJson ELSE TextPlain

CallerSetsContentType(r) ==
  /\ reqs[r].outcome.response.hasHeaders
  /\ HasHeader(reqs[r].outcome.response.headers, "content-type")

FieldName(name) ==
  CASE name = "Content-Length" -> "content-length"
    [] name = "Content-Type" -> "content-type"
    [] OTHER -> name

CallerHeaders(r) ==
  IF reqs[r].outcome.response.hasHeaders THEN reqs[r].outcome.response.headers ELSE <<>>

C11_HeaderPrecedence ==
  \A r \in ReqIds :
    ReturnedBody(r) =>
      LET sent == SentHeaders(reqs[r].wire)
          caller == CallerHeaders(r)
          length == toString(byteLength(SentText(reqs[r].wire)))
      IN /\ sent # <<>>
         /\ sent[1].name = "content-type"
         /\ sent[1].value = IF HasHeader(caller, "content-type")
                            THEN GetHeader(caller, "content-type")
                            ELSE InferredContentType(r)
         /\ \A i \in 1..Len(caller) :
              FieldName(caller[i].name) \notin {"content-type", "content-length"}
                => \E j \in 1..Len(sent) : sent[j] = caller[i]
         /\ \E j \in 1..Len(sent) : FieldName(sent[j].name) = "content-length"
         /\ \A j \in 1..Len(sent) :
              FieldName(sent[j].name) = "content-length" => sent[j].value = length

(***************************************************************************)
(* C12.  Round trip: for any text t posted as the request body to a plain   *)
(* route whose handler returns {status 200, body: request.body}, the        *)
(* response status is 200 and the response body is textually equal to t.   *)
(***************************************************************************)
RECURSIVE Concat(_)
Concat(chunks) == IF chunks = <<>> THEN <<>> ELSE Head(chunks) \o Concat(Tail(chunks))

\* the text that the client posted: its bytes are those of all chunks together
PostedText(raw) == Utf8Decode(Concat(raw.chunks))

\* request r was answered by a plain route whose handler echoes the body
Echoed(r) ==
  /\ Settled(r)
  /\ ~isRouteWithValidations(reqs[r].table[reqs[r].route])
  /\ reqs[r].table[reqs[r].route].handler.kind = "echo"

C12_EchoRoundTrip ==
  \A r \in ReqIds :
    Echoed(r) =>
      /\ SentStatus(reqs[r].wire) = 200
      /\ SentText(reqs[r].wire) = PostedText(reqs[r].raw)

(***************************************************************************)
(* C13.  Within one compiler cache compile(schema) is idempotent on         *)
(* identity: every call with the same schema object returns the same        *)
(* validator instance, and the compilation runs at most once per schema     *)
(* object, however many requests use it.                                   *)
(***************************************************************************)
C13_CompileIdempotent ==
  /\ \A id \in SchemaIds : compiles[id] <= 1
  /\ \A a, b \in cache : a.schema = b.schema => a = b
  /\ \A r \in ReqIds :
       reqs[r].compiled.called
         => /\ reqs[r].compiled.validator \in cache
            /\ reqs[r].compiled.validator.run = 1
            /\ compiles[reqs[r].compiled.validator.schema] = 1

\* a request was validated by a validator that compile took from the cache
C13_Witness ==
  \E r \in ReqIds :
    /\ reqs[r].pc = "done"
    /\ reqs[r].compiled.called
    /\ reqs[r].compiled.hit

(***************************************************************************)
(* C14.  The Compiled-Schema Cache only grows and is keyed by identity: an  *)
(* entry once added is never removed or replaced; two distinct schema       *)
(* objects occupy two distinct entries even when structurally identical;    *)
(* every key is the schema of a registered typed route that was matched at  *)
(* least once; so the size of the cache never exceeds the number of         *)
(* distinct registered schemas, whatever the number of requests.           *)
(***************************************************************************)
\* the schema objects of the typed routes registered
RegisteredSchemas == {routes[i].schema.id : i \in {j \in 1..Len(routes) : routes[j].typed}}

\* in this step the Dispatcher matched request r with a typed route of schema id
MatchedTyped(r, id) ==
  /\ reqs[r].pc = "body"
  /\ reqs'[r].pc # "body"
  /\ reqs'[r].route # 0
  /\ reqs'[r].table[reqs'[r].route].typed
  /\ reqs'[r].table[reqs'[r].route].schema.id = id

C14_CacheGrowsOnly ==
  /\ [](/\ \A e \in cache : e.schema \in RegisteredSchemas
        /\ \A a, b \in cache : a.schema = b.schema => a = b
        /\ Cardinality(cache) <= Cardinality(RegisteredSchemas)
        /\ \A id \in SchemaIds : compiles[id] >= 1 => \E e \in cache : e.schema = id
        /\ \A r \in ReqIds :
             reqs[r].compiled.called
               => reqs[r].compiled.validator.schema = reqs[r].table[reqs[r].route].schema.id)
  /\ [][/\ cache \subseteq cache'
        /\ \A e \in cache' \ cache : \E r \in ReqIds : MatchedTyped(r, e.schema)]_vars

\* the cache holds one entry for each of two structurally identical schemas
C14_Witness ==
  /\ Cardinality(cache) = 2
  /\ \E r \in ReqIds : reqs[r].pc = "done" /\ reqs[r].compiled.called /\ ~reqs[r].compiled.hit

(***************************************************************************)
(* C15.  For each request the wire events are ordered: nothing is written   *)
(* before the result of the selected handler has settled; then exactly one  *)
(* write of status and headers; then at most one write of body bytes, none  *)
(* when the Response body is absent; then exactly one finalisation, after   *)
(* which nothing more is written.                                          *)
(***************************************************************************)
WireOps(wire) == [i \in 1..Len(wire) |-> wire[i].op]

C15_WireOrder ==
  \A r \in ReqIds :
    /\ reqs[r].pc # "done" => reqs[r].wire = <<>>
    /\ reqs[r].pc = "done"
         => /\ WireOps(reqs[r].wire) \in {<<"writeHead", "end">>, <<"writeHead", "write", "end">>}
            /\ ~bodyPresent(reqs[r].response) => WireOps(reqs[r].wire) = <<"writeHead", "end">>
            /\ Len(reqs[r].wire) = 3 => reqs[r].wire[2].text # <<>>

\* a handler returned a Response without a body: status and headers, then the end
C15_Witness ==
  \E r \in ReqIds :
    /\ Settled(r)
    /\ ~reqs[r].outcome.threw
    /\ ~bodyPresent(reqs[r].outcome.response)
    /\ WireOps(reqs[r].wire) = <<"writeHead", "end">>

(***************************************************************************)
(* C16.  A request whose method token is not one of GET, POST, PUT, PATCH,  *)
(* DELETE (compared without regard to case) is failed as a request-level    *)
(* parse error, a 4xx response, before any route matcher or handler is      *)
(* evaluated; a token in the set is upper-cased, so every Request that a    *)
(* matcher or handler sees has its method in the set.                      *)
(***************************************************************************)
C16_InvalidMethodIs4xx ==
  \A r \in ReqIds :
    /\ reqs[r].pc = "rejected"
         => /\ reqs[r].calls = <<>>
            /\ WrittenOnce(reqs[r].wire)
            /\ SentStatus(reqs[r].wire) \in 400..499
    /\ Dispatched(r)
         => /\ reqs[r].request.method \in HttpMethods
            /\ reqs[r].request.method = toUpperCase(reqs[r].raw.method)

(***************************************************************************)
(* C17.  No route matcher or handler runs for a request before its whole    *)
(* body stream has been read: the Request body is the concatenation of all  *)
(* chunks in arrival order, and it is absent, not the empty string, when    *)
(* the stream delivered no chunk.                                          *)
(***************************************************************************)
RECURSIVE ChunksAsText(_)
\* the chunks, each in its string form, one after the other
ChunksAsText(chunks) ==
  IF chunks = <<>> THEN <<>> ELSE Utf8Decode(Head(chunks)) \o ChunksAsText(Tail(chunks))

C17_BodyBuffered ==
  \A r \in ReqIds :
    /\ reqs[r].pc = "body"
         => /\ reqs[r].table = <<>>
            /\ reqs[r].route = 0
            /\ reqs[r].calls = <<>>
    /\ Dispatched(r)
         => /\ reqs[r].chunks = <<>>
            /\ reqs[r].request.body =
                 IF reqs[r].raw.chunks = <<>> THEN BAbsent
                 ELSE BString(ChunksAsText(reqs[r].raw.chunks))
            /\ \A i \in 1..Len(reqs[r].calls) :
                 reqs[r].calls[i].request.body.kind = "absent" <=> reqs[r].raw.chunks = <<>>

\* a body that came in two chunks reached a handler in one piece
C17_Witness ==
  \E r \in ReqIds :
    /\ Settled(r)
    /\ Len(reqs[r].raw.chunks) = 2
    /\ reqs[r].calls[1].request.body = BString(BodyHello)

(***************************************************************************)
(* C18.  For any Route Table and any request, the route selected, the       *)
(* handler invocation and the response (status, headers, body) are the same *)
(* with debug logging enabled as with it disabled; enabling debug only adds *)
(* logger calls before dispatch.                                           *)
(***************************************************************************)
\* request r has been read and the callback is about to go on
ReadyToDispatch(r) == reqs[r].pc = "body" /\ reqs[r].chunks = <<>>

WithoutLog(run) == [run EXCEPT !.req.log = <<>>]

C18_DebugChangesNothing ==
  \A r \in ReqIds :
    /\ ReadyToDispatch(r)
         => LET on == routeLoop(r, TRUE)
                off == routeLoop(r, FALSE)
            IN /\ WithoutLog(on) = WithoutLog(off)
               /\ on.req.log = <<"debug">> \o off.req.log
    /\ Dispatched(r)
         => \A i \in 2..Len(reqs[r].log) : reqs[r].log[i] # "debug"

\* a request dispatched with debug set was logged and then answered by a handler
C18_Witness ==
  \E r \in ReqIds :
    /\ Settled(r)
    /\ ~reqs[r].outcome.threw
    /\ reqs[r].log = <<"debug">>
    /\ SentStatus(reqs[r].wire) = 200

(***************************************************************************)
(* C19.  With debug never enabled, creating a server and starting it makes  *)
(* no call to any method of the injected logger.                           *)
(***************************************************************************)
\* no logger call has been made at creation, and a step that debug is off
\* before and after makes none
C19_QuietStart ==
  /\ serverLog = <<>>
  /\ [][(~debug /\ ~debug') => serverLog' = serverLog]_vars

(***************************************************************************)
(* C20.  The Route Table starts empty and is append-only: each addRoute or  *)
(* addTypedRoute call adds exactly its route at the end and leaves every    *)
(* earlier route and their order unchanged; no operation (dispatch, debug,  *)
(* start, stop) removes, replaces or reorders a route.                     *)
(***************************************************************************)
\* the route objects of a table, whatever the matching state (lastIndex) of
\* their pattern matchers
RouteObjects(rts) == [i \in 1..Len(rts) |-> [rts[i] EXCEPT !.matcher.lastIndex = 0]]

C20_AppendOnly ==
  /\ routes = <<>>
  /\ [][\/ RouteObjects(routes') = RouteObjects(routes)
        \/ /\ \E route \in TypedRouteInputs \cup TypedRouteWithSchemaInputs :
                routes' = Append(routes, route)
           /\ UNCHANGED <<debug, lifecycle, cache, compiles, shared, serverLog, reqs>>]_vars

\* a route was added after a request had been dispatched against a table of
\* one route, which is still the first
C20_Witness ==
  \E r \in ReqIds :
    /\ reqs[r].pc = "done"
    /\ Len(reqs[r].table) = 1
    /\ Len(routes) = 2
    /\ RouteObjects(routes)[1] = RouteObjects(reqs[r].table)[1]
    /\ routes[2].typed

(***************************************************************************)
(* C22.  In the method-annotated route shape a route matches a request if   *)
(* and only if both checks hold: the path check (string matcher: equality   *)
(* with the request path; pattern matcher: the pattern matches anywhere in  *)
(* the path, with no reference to the method) and the method check (route   *)
(* method equals request method); a route whose path matches but whose      *)
(* method differs is never selected.                                       *)
(***************************************************************************)
\* the pattern occurs in the path, at a place its anchors allow
PatternOccurs(matcher, path) ==
  \E i \in 1..(Len(path) - Len(matcher.source) + 1) :
    /\ OccursAt(matcher.source, path, i)
    /\ matcher.anchorStart => i = 1
    /\ matcher.anchorEnd => i + Len(matcher.source) - 1 = Len(path)

PathCheck(request, route) ==
  IF route.matcher.kind = "regexp" THEN PatternOccurs(route.matcher, request.path)
  ELSE route.matcher.source = request.path

MethodCheck(request, route) == route.method = request.method

\* the routes of a table for which both checks hold
BothChecks(request, rts) ==
  {i \in 1..Len(rts) : PathCheck(request, rts[i]) /\ MethodCheck(request, rts[i])}

C22_PathAndMethod ==
  \A r \in ReqIds :
    Dispatched(r) =>
      /\ reqs[r].route # 0 => MethodCheck(reqs[r].request, reqs[r].table[reqs[r].route])
      /\ reqs[r].route =
           IF BothChecks(reqs[r].request, reqs[r].table) = {} THEN 0
           ELSE CHOOSE i \in BothChecks(reqs[r].request, reqs[r].table) :
                  \A j \in BothChecks(reqs[r].request, reqs[r].table) : i <= j

(***************************************************************************)
(* C23.  Matching leaves routes unchanged and is a function of (request,    *)
(* route) only: dispatching the same request any number of times against    *)
(* an unchanged Route Table selects the same route every time, for every    *)
(* matcher kind, pattern matchers included.                                *)
(***************************************************************************)
\* the routes of a table as they were registered
AsRegistered(rts) == [i \in 1..Len(rts) |-> [rts[i] EXCEPT !.matcher.lastIndex = 0]]

C23_MatchingIsPure ==
  /\ routes = AsRegistered(routes)
  /\ \A r \in ReqIds :
       Dispatched(r) =>
         reqs[r].route = FindRoute(reqs[r].request, AsRegistered(reqs[r].table), 1).index

(***************************************************************************)
(* C24.  Serializing a response leaves the Response value that the handler  *)
(* returned unchanged (status, headers and body as the handler produced     *)
(* them), so a handler that returns the same Response object for two        *)
(* requests gets the same wire headers, computed from the same inputs.     *)
(***************************************************************************)
C24_ResponseUntouched ==
  /\ \A ref \in SharedRefs : shared[ref] = SharedInit[ref]
  /\ \A r \in ReqIds :
       (Settled(r) /\ reqs[r].outcome.ref \in SharedRefs)
         => /\ reqs[r].outcome.response = SharedInit[reqs[r].outcome.ref]
            /\ SentHeaders(reqs[r].wire) =
                 Serialize(SharedInit[reqs[r].outcome.ref]).response.headers

(***************************************************************************)
(* C21.  With several requests in flight and interleaved at their          *)
(* suspension points (body read, handler await), each request's selected    *)
(* route and response are what it would get if it were dispatched alone     *)
(* against the same Route Table: nothing of one request is read or          *)
(* overwritten by another, and a first use of one schema by two requests    *)
(* leaves the cache that one use leaves.                                   *)
(***************************************************************************)
RECURSIVE ReadAlone(_, _)
\* the body that parseBody builds from the chunks of one message
ReadAlone(data, chunks) ==
  IF chunks = <<>> THEN data ELSE ReadAlone(parseBodyChunk(data, Head(chunks)), Tail(chunks))

\* the request that parseRequest builds from one raw message
RequestAlone(raw) == HttpRequest(parsePath(raw), parseMethod(raw), ReadAlone(BAbsent, raw.chunks))

\* the Response that a handler produces for a request, or the translation of what it raises
HandledAlone(h, request) ==
  IF RunHandler(h, request).threw THEN parseErrorResponse(RunHandler(h, request).err)
  ELSE IF RunHandler(h, request).ref \in SharedRefs THEN SharedInit[RunHandler(h, request).ref]
  ELSE RunHandler(h, request).response

\* the Response of the route at position i of a table (0: no route) for a request
ResponseAlone(request, rts, i) ==
  IF i = 0 THEN DefaultResponse
  ELSE IF ~isRouteWithValidations(rts[i]) THEN HandledAlone(rts[i].handler, request)
  ELSE IF ~validateRequestBody(request, rts[i].schema).ok
       THEN parseErrorResponse(validateRequestBody(request, rts[i].schema).err)
  ELSE HandledAlone(rts[i].handler,
                    [request EXCEPT !.body = validateRequestBody(request, rts[i].schema).body])

\* what the response handle receives when the request is the only one
WireAlone(request, rts) ==
  WireOf(Serialize(ResponseAlone(request, rts, FindRoute(request, rts, 1).index)))

====
